---------------------------- MODULE Spec2Model ----------------------------
(***************************************************************************)
(* A model of the FLAC -> MP3 transcoding pipeline of                      *)
(* salmon/converter/transcoding.py.                                        *)
(*                                                                         *)
(* Strings are sequences of one-character strings, so that the regular     *)
(* expressions and the os.path functions are computed character by         *)
(* character, as the code computes them.                                   *)
(***************************************************************************)
EXTENDS Integers, Sequences, FiniteSets, TLC

(***************************************************************************)
(* Character strings                                                       *)
(***************************************************************************)

S_FLAC_OPEN == <<"[", "F", "L", "A", "C">>
S_LOSSLESS == <<"l", "o", "s", "s", "l", "e", "s", "s">>
S_MP3 == <<"M", "P", "3">>
S_320 == <<"3", "2", "0">>
S_V0 == <<"V", "0">>
S_V2 == <<"V", "2">>

UpperChars == <<"A", "B", "C", "D", "E", "F", "G", "H", "I", "J", "K", "L", "M",
                "N", "O", "P", "Q", "R", "S", "T", "U", "V", "W", "X", "Y", "Z">>
LowerChars == <<"a", "b", "c", "d", "e", "f", "g", "h", "i", "j", "k", "l", "m",
                "n", "o", "p", "q", "r", "s", "t", "u", "v", "w", "x", "y", "z">>

LowerOf ==
    [c \in {UpperChars[i] : i \in 1..Len(UpperChars)} |->
        LowerChars[CHOOSE i \in 1..Len(UpperChars) : UpperChars[i] = c]]

\* str.lower() of one character; also the case folding of re.IGNORECASE
LowerChar(c) == IF c \in DOMAIN LowerOf THEN LowerOf[c] ELSE c

Lower(s) == [i \in 1..Len(s) |-> LowerChar(s[i])]

\* s[i:] in Python terms, for a 1-based i
From(s, i) == SubSeq(s, i, Len(s))

\* the pattern p (a literal) matches s at position i
MatchAt(s, i, p) ==
    /\ i >= 1
    /\ i + Len(p) - 1 <= Len(s)
    /\ SubSeq(s, i, i + Len(p) - 1) = p

\* the same, ignoring case (p is given in lower case)
MatchAtNoCase(s, i, p) ==
    /\ i >= 1
    /\ i + Len(p) - 1 <= Len(s)
    /\ Lower(SubSeq(s, i, i + Len(p) - 1)) = p

RECURSIVE Flatten(_)
Flatten(ss) == IF ss = <<>> THEN <<>> ELSE Head(ss) \o Flatten(Tail(ss))

(***************************************************************************)
(* FLAC_FOLDER_RE = re.compile(r"\[FLAC.*\]"): the leftmost "[FLAC" that   *)
(* has a "]" somewhere after it; the greedy ".*" runs to the last "]".     *)
(***************************************************************************)
FlacMatchStarts(s) ==
    {i \in 1..Len(s) :
        /\ MatchAt(s, i, S_FLAC_OPEN)
        /\ \E j \in (i + Len(S_FLAC_OPEN))..Len(s) : s[j] = "]"}

FLAC_FOLDER_RE_search(s) == FlacMatchStarts(s) # {}

\* FLAC_FOLDER_RE.sub(repl, s): the first match ends at the last "]" of s,
\* so that no second match can follow it
FLAC_FOLDER_RE_sub(repl, s) ==
    IF FlacMatchStarts(s) = {} THEN s
    ELSE LET i == CHOOSE a \in FlacMatchStarts(s) :
                      \A b \in FlacMatchStarts(s) : a <= b
             j == CHOOSE a \in 1..Len(s) :
                      /\ s[a] = "]"
                      /\ \A b \in 1..Len(s) : s[b] = "]" => b <= a
         IN  SubSeq(s, 1, i - 1) \o repl \o From(s, j + 1)

(***************************************************************************)
(* LOSSLESS_FOLDER_RE = re.compile(r"Lossless", flags=re.IGNORECASE)       *)
(***************************************************************************)
LOSSLESS_FOLDER_RE_search(s) ==
    \E i \in 1..Len(s) : MatchAtNoCase(s, i, S_LOSSLESS)

\* LOSSLESS_FOLDER_RE.sub(repl, s): a scan from the left that replaces every
\* match and resumes after it
RECURSIVE LosslessSubFrom(_, _, _)
LosslessSubFrom(repl, s, i) ==
    IF i > Len(s) THEN <<>>
    ELSE IF MatchAtNoCase(s, i, S_LOSSLESS)
         THEN repl \o LosslessSubFrom(repl, s, i + Len(S_LOSSLESS))
         ELSE <<s[i]>> \o LosslessSubFrom(repl, s, i + 1)

\* (a variant that replaces the first match only, as sub(..., count=1))
LosslessSubFirst(repl, s) ==
    IF \E i \in 1..Len(s) : MatchAtNoCase(s, i, S_LOSSLESS)
    THEN LET i == CHOOSE a \in 1..Len(s) :
                      /\ MatchAtNoCase(s, a, S_LOSSLESS)
                      /\ \A b \in 1..(a - 1) : ~MatchAtNoCase(s, b, S_LOSSLESS)
         IN  SubSeq(s, 1, i - 1) \o repl \o From(s, i + Len(S_LOSSLESS))
    ELSE s

LOSSLESS_FOLDER_RE_sub(repl, s) == LosslessSubFrom(repl, s, 1)

(***************************************************************************)
(* os.path (posixpath)                                                     *)
(***************************************************************************)
\* the position of the last "/" of p, 0 when there is none: p.rfind("/") + 1
LastSlash(p) ==
    IF \E i \in 1..Len(p) : p[i] = "/"
    THEN CHOOSE i \in 1..Len(p) :
             /\ p[i] = "/"
             /\ \A k \in 1..Len(p) : p[k] = "/" => k <= i
    ELSE 0

os_path_basename(p) == From(p, LastSlash(p) + 1)

RECURSIVE RStripSlash(_)
RStripSlash(s) ==
    IF s # <<>> /\ s[Len(s)] = "/" THEN RStripSlash(SubSeq(s, 1, Len(s) - 1)) ELSE s

\* head = p[:i]; if head and head != "/" * len(head): head = head.rstrip("/")
os_path_dirname(p) ==
    LET head == SubSeq(p, 1, LastSlash(p))
    IN  IF head # <<>> /\ \E i \in 1..Len(head) : head[i] # "/"
        THEN RStripSlash(head)
        ELSE head

os_path_join(a, b) ==
    IF b # <<>> /\ b[1] = "/" THEN b
    ELSE IF a = <<>> \/ a[Len(a)] = "/" THEN a \o b
    ELSE a \o <<"/">> \o b

(***************************************************************************)
(* _build_output_path                                                      *)
(***************************************************************************)
\* the folder name after the if / elif / else of lines 89-99
RenamedFolder(foldername, bitrate) ==
    IF FLAC_FOLDER_RE_search(foldername)
    THEN IF LOSSLESS_FOLDER_RE_search(foldername)
         THEN LOSSLESS_FOLDER_RE_sub(bitrate, FLAC_FOLDER_RE_sub(S_MP3, foldername))
         ELSE FLAC_FOLDER_RE_sub(S_MP3 \o <<" ">> \o bitrate, foldername)
    ELSE IF LOSSLESS_FOLDER_RE_search(foldername)
         THEN LOSSLESS_FOLDER_RE_sub(bitrate, foldername)
         ELSE foldername

\* to_append, already joined by " "; <<>> when the list is empty
ToAppend(foldername, bitrate) ==
    IF FLAC_FOLDER_RE_search(foldername) THEN <<>>
    ELSE IF LOSSLESS_FOLDER_RE_search(foldername) THEN S_MP3
    ELSE S_MP3 \o <<" ">> \o bitrate

\* foldername after lines 101-102
NewFolderName(foldername, bitrate) ==
    IF ToAppend(foldername, bitrate) # <<>>
    THEN RenamedFolder(foldername, bitrate)
             \o <<" ", "[">> \o ToAppend(foldername, bitrate) \o <<"]">>
    ELSE RenamedFolder(foldername, bitrate)

_build_output_path(path, bitrate) ==
    os_path_join(os_path_dirname(path),
                 NewFolderName(os_path_basename(path), bitrate))


(***************************************************************************)
(* State                                                                   *)
(***************************************************************************)
VARIABLES
    nm_path,      \* _build_output_path alone: its argument path
    nm_bitrate,   \*   its argument bitrate
    nm_out,       \*   its result
    nm_pc,        \*   "in" before the call, "out" after it, "off" in the pipeline
    tg_tags,      \* _prepare_tags alone: its argument tags
    tg_out,       \*   its result, or the exception it raised
    tg_pc,        \*   "in", "out" or "off"
    wr_tags,      \* _copy_tags alone: tag_dict, as the sequence of its items()
    wr_pics,      \*   flac_obj.pictures
    wr_mp3,       \*   what mp3.MP3(mp3_path) finds in the file
    wr_frames,    \*   the tag container of the MP3 file: hash key -> frame
    wr_pc,        \*   "in", "out" or "off"
    src,          \* the source album directory (transcode_folder's path)
    tree,         \* the files under src: slot -> file, fixed during a behaviour
    dirs,         \* the directories that exist outside src
    files,        \* the files that exist outside src and the temp dir: path -> content
    tmpfiles,     \* the temporary files that exist
    run,          \* the number of transcode_folder invocations started
    pc,           \* the position of the current invocation
    bitrate,      \* its quality label
    new_path,     \* its destination directory
    items,        \* its work list (a sequence of TranscodeItem)
    task,         \* the item tasks of _transcode_audio_files: index -> task
    result,       \* how the current or last invocation ended
    done,         \* dirs and files as the current invocation found them, and
                  \* what it has done so far
    returned,     \* <<label, destination>> of the invocations that have returned
    description   \* the text generate_transcode_description gave the caller
                  \* for the invocation that has returned

nmvars == <<nm_path, nm_bitrate, nm_out, nm_pc>>
tgvars == <<tg_tags, tg_out, tg_pc>>
wrvars == <<wr_tags, wr_pics, wr_mp3, wr_frames, wr_pc>>
fsvars == <<dirs, files, tmpfiles>>
pvars == <<src, tree, dirs, files, tmpfiles, run, pc, bitrate, new_path, items,
           task, result, done, returned, description>>
vars == <<nm_path, nm_bitrate, nm_out, nm_pc, tg_tags, tg_out, tg_pc,
          wr_tags, wr_pics, wr_mp3, wr_frames, wr_pc, src, tree, dirs, files, tmpfiles,
          run, pc, bitrate, new_path, items, task, result, done, returned,
          description>>

(***************************************************************************)
(* Bounds                                                                  *)
(***************************************************************************)
MaxTokens == 3     \* the tokens of a path given to _build_output_path
MaxFiles == 2      \* the file slots of the source tree
MaxRuns == 2       \* the invocations of transcode_folder in a behaviour
MaxWorkers == 2    \* the batch runner's concurrency bound
MaxTags == 2       \* the keys of a tag_dict given to _copy_tags
MaxPics == 2       \* the pictures of a FLAC file given to _copy_tags

(***************************************************************************)
(* Program constants                                                       *)
(***************************************************************************)
EXT_FLAC == <<".", "f", "l", "a", "c">>
EXT_MP3 == <<".", "m", "p", "3">>
EXT_JPG == <<".", "j", "p", "g">>
EXT_LOG == <<".", "l", "o", "g">>

LAME_COMMAND_MAP_keys == {S_V0, S_320}

\* the command lines are sequences of arguments
LAME_COMMAND_MAP ==
    (S_V0 :> <<"-V", "0", "--vbr-new">>) @@ (S_320 :> <<"-b", "320", "-h">>)
LAME_OPTIONS == <<"--quiet", "--add-id3v2", "--ignore-tag-errors">>
FLAC_DECODE_OPTIONS == <<"-Vdsc">>

COPY_EXTENSIONS ==
    {EXT_JPG, <<".", "j", "p", "e", "g">>, <<".", "p", "n", "g">>,
     <<".", "p", "d", "f">>, <<".", "t", "x", "t">>}

LOSSY_EXTENSIONS ==
    {EXT_MP3, <<".", "m", "4", "a">>, <<".", "o", "g", "g">>,
     <<".", "o", "p", "u", "s">>}

(***************************************************************************)
(* Tags: a mapping from a key to a sequence of values, keys and values     *)
(* being strings                                                           *)
(***************************************************************************)
K_tracknumber == <<"t", "r", "a", "c", "k", "n", "u", "m", "b", "e", "r">>
K_tracktotal == <<"t", "r", "a", "c", "k", "t", "o", "t", "a", "l">>
K_totaltracks == <<"t", "o", "t", "a", "l", "t", "r", "a", "c", "k", "s">>
K_total_tracks == <<"t", "o", "t", "a", "l", " ", "t", "r", "a", "c", "k", "s">>
K_discnumber == <<"d", "i", "s", "c", "n", "u", "m", "b", "e", "r">>
K_disctotal == <<"d", "i", "s", "c", "t", "o", "t", "a", "l">>
K_totaldiscs == <<"t", "o", "t", "a", "l", "d", "i", "s", "c", "s">>
K_total_discs == <<"t", "o", "t", "a", "l", " ", "d", "i", "s", "c", "s">>
K_replaygain == <<"r", "e", "p", "l", "a", "y", "g", "a", "i", "n">>
K_encoder == <<"e", "n", "c", "o", "d", "e", "r">>
K_title == <<"t", "i", "t", "l", "e">>
K_replaygain_track_gain == K_replaygain \o <<"_", "t", "r", "a", "c", "k", "_", "g", "a", "i", "n">>

FLAC_TAGS_NOT_TO_COPY == {K_encoder}

\* _TOT_MAP, in the order its items are iterated
TOT_MAP_tracknumber == {K_tracktotal, K_totaltracks, K_total_tracks}
TOT_MAP_discnumber == {K_disctotal, K_totaldiscs, K_total_discs}

DigitChars == <<"0", "1", "2", "3", "4", "5", "6", "7", "8", "9">>
IsDigit(c) == \E d \in 1..10 : DigitChars[d] = c
DigitVal(c) == (CHOOSE d \in 1..10 : DigitChars[d] = c) - 1

RECURSIVE DigitsVal(_)
DigitsVal(s) ==
    IF s = <<>> THEN 0
    ELSE 10 * DigitsVal(SubSeq(s, 1, Len(s) - 1)) + DigitVal(s[Len(s)])

RECURSIVE StripSpaces(_)
StripSpaces(s) ==
    IF s # <<>> /\ s[1] = " " THEN StripSpaces(Tail(s))
    ELSE IF s # <<>> /\ s[Len(s)] = " " THEN StripSpaces(SubSeq(s, 1, Len(s) - 1))
    ELSE s

\* int(s): surrounding blanks and a sign are accepted; ok is FALSE where
\* int raises ValueError
int(s) ==
    LET t == StripSpaces(s)
        signed == t # <<>> /\ t[1] \in {"+", "-"}
        digits == IF signed THEN Tail(t) ELSE t
    IN  IF digits = <<>> \/ \E i \in 1..Len(digits) : ~IsDigit(digits[i])
        THEN [ok |-> FALSE, val |-> 0]
        ELSE [ok |-> TRUE,
              val |-> IF signed /\ t[1] = "-" THEN 0 - DigitsVal(digits)
                      ELSE DigitsVal(digits)]

RECURSIVE NatStr(_)
NatStr(n) ==
    IF n < 10 THEN <<DigitChars[n + 1]>>
    ELSE NatStr(n \div 10) \o <<DigitChars[(n % 10) + 1]>>

\* str(n) of an integer
str(n) == IF n < 0 THEN <<"-">> \o NatStr(0 - n) ELSE NatStr(n)

\* {k: v for k, v in d.items() if k in keep}
Restrict(d, keep) == [k \in (DOMAIN d) \cap keep |-> d[k]]

\* (a variant that leaves the total keys in the mapping)
MergeKeepingTotals(res, tag, tots) ==
    LET used == tots \cap DOMAIN res
    IN  IF tag \notin DOMAIN res \/ used = {}
        THEN [ok |-> TRUE, tags |-> res, err |-> "", keys |-> {}]
        ELSE IF \E t \in used : ~int(res[t][1]).ok
        THEN [ok |-> FALSE, tags |-> << >>, err |-> "int", keys |-> used]
        ELSE LET tot_vals == {int(res[t][1]).val : t \in used}
             IN  IF Cardinality(tot_vals) = 1
                 THEN [ok |-> TRUE,
                       tags |-> [res EXCEPT ![tag] =
                                    <<res[tag][1] \o <<"/">>
                                          \o str(CHOOSE v \in tot_vals : TRUE)>>],
                       err |-> "", keys |-> {}]
                 ELSE [ok |-> FALSE, tags |-> << >>, err |-> "conflict", keys |-> used]

\* (a variant whose conflict error names the synonym keys of the group,
\* present or not)
MergeNamingGroup(res, tag, tots) ==
    LET used == tots \cap DOMAIN res
    IN  IF tag \notin DOMAIN res \/ used = {}
        THEN [ok |-> TRUE, tags |-> res, err |-> "", keys |-> {}]
        ELSE IF \E t \in used : ~int(res[t][1]).ok
        THEN [ok |-> FALSE, tags |-> << >>, err |-> "int", keys |-> used]
        ELSE LET tot_vals == {int(res[t][1]).val : t \in used}
                 removed == Restrict(res, (DOMAIN res) \ used)
             IN  IF Cardinality(tot_vals) = 1
                 THEN [ok |-> TRUE,
                       tags |-> [removed EXCEPT ![tag] =
                                    <<removed[tag][1] \o <<"/">>
                                          \o str(CHOOSE v \in tot_vals : TRUE)>>],
                       err |-> "", keys |-> {}]
                 ELSE [ok |-> FALSE, tags |-> << >>, err |-> "conflict", keys |-> tots]

\* one round of the loop over _TOT_MAP (lines 160-178), from result
MergeTotals(res, tag, tots) ==
    LET used == tots \cap DOMAIN res
    IN  IF tag \notin DOMAIN res \/ used = {}
        THEN [ok |-> TRUE, tags |-> res, err |-> "", keys |-> {}]
        ELSE IF \E t \in used : ~int(res[t][1]).ok
        THEN [ok |-> FALSE, tags |-> << >>, err |-> "int", keys |-> used]
        ELSE LET tot_vals == {int(res[t][1]).val : t \in used}
                 removed == Restrict(res, (DOMAIN res) \ used)
             IN  IF Cardinality(tot_vals) = 1
                 THEN [ok |-> TRUE,
                       tags |-> [removed EXCEPT ![tag] =
                                    <<removed[tag][1] \o <<"/">>
                                          \o str(CHOOSE v \in tot_vals : TRUE)>>],
                       err |-> "", keys |-> {}]
                 ELSE [ok |-> FALSE, tags |-> << >>, err |-> "conflict", keys |-> used]

\* (a variant that drops the key "replaygain" itself, not the keys that
\* start with it)
FilterTagsExact(tags) ==
    Restrict(tags, {k \in DOMAIN tags :
                       /\ k # K_replaygain
                       /\ k \notin FLAC_TAGS_NOT_TO_COPY})

\* the filter of line 156
FilterTags(tags) ==
    Restrict(tags, {k \in DOMAIN tags :
                       /\ ~MatchAt(k, 1, K_replaygain)
                       /\ k \notin FLAC_TAGS_NOT_TO_COPY})

_prepare_tags(tags) ==
    LET r1 == MergeTotals(FilterTags(tags), K_tracknumber, TOT_MAP_tracknumber)
    IN  IF ~r1.ok THEN r1
        ELSE MergeTotals(r1.tags, K_discnumber, TOT_MAP_discnumber)

(***************************************************************************)
(* The source tree.  Slot i holds at most one file.  The names are chosen  *)
(* so that the order of the paths (sorted(rglob)) is the order of the      *)
(* slots: c1.x, c2/t.x, c3.x, c4/t.x, ...                                  *)
(***************************************************************************)
Slots == 1..MaxFiles

RelDir(i) == IF i % 2 = 0 THEN <<"c", DigitChars[i + 1]>> ELSE << >>
Stem(i) == IF i % 2 = 0 THEN <<"t">> ELSE <<"c", DigitChars[i + 1]>>

\* the raw tags (tags.as_dict()) of the FLAC files of the pipeline
RAW_OK ==
    (K_tracknumber :> << <<"3">> >>) @@ (K_tracktotal :> << <<"1", "2">> >>)
        @@ (K_title :> << <<"t">> >>) @@ (K_encoder :> << <<"x">> >>)
RAW_CONFLICT ==
    (K_tracknumber :> << <<"3">> >>) @@ (K_tracktotal :> << <<"1", "2">> >>)
        @@ (K_totaltracks :> << <<"1", "1">> >>)

NoFile == [present |-> FALSE, ext |-> << >>, channels |-> 0, tagkind |-> "", tags |-> << >>]
PlainFile(e) == [present |-> TRUE, ext |-> e, channels |-> 0, tagkind |-> "", tags |-> << >>]
FlacFile(ch, kind, raw) ==
    [present |-> TRUE, ext |-> EXT_FLAC, channels |-> ch, tagkind |-> kind, tags |-> raw]

\* what a slot may hold: nothing; a FLAC file with a Vorbis comment block,
\* stereo or 5.1; a FLAC file without a tag block, with a tag block of
\* another kind, or with conflicting totals; a sidecar, a lossy file (in
\* either case of its extension), or a file of no interest
FileKinds ==
    {NoFile,
     FlacFile(2, "VCFLACDict", RAW_OK), FlacFile(6, "VCFLACDict", RAW_OK),
     FlacFile(2, "None", << >>), FlacFile(2, "ID3", << >>),
     FlacFile(2, "VCFLACDict", RAW_CONFLICT),
     PlainFile(EXT_JPG), PlainFile(EXT_MP3), PlainFile(<<".", "M", "P", "3">>),
     PlainFile(EXT_LOG)}

PipelineSources ==
    {<<"/", "m", "/", "A">>,
     <<"/", "m", "/", "A", " ">> \o S_FLAC_OPEN \o <<" ", "L", "o", "s", "s", "l", "e", "s", "s", "]">>}

\* the labels the upload workflow passes to transcode_folder
Labels == {S_320, S_V0}

\* the labels _transcode_audio_files may be given: also one that is no key
\* of LAME_COMMAND_MAP
EngineLabels == {S_320, S_V0, S_V2}

\* the path of slot i's file relative to the root, with extension e
RelPath(i, e) == os_path_join(RelDir(i), Stem(i) \o e)

\* the directories mkdir(parents=True, exist_ok=True) leaves existing for the
\* parent of root/RelPath(i, _): the ancestors of root exist already
MkdirParents(root, i) ==
    {root} \cup (IF RelDir(i) = << >> THEN {} ELSE {os_path_join(root, RelDir(i))})

(***************************************************************************)
(* _validate_lossless: TRUE when it returns, FALSE when it raises          *)
(* click.Abort                                                             *)
(***************************************************************************)
\* (a variant that compares the extension as it is written)
IsLossyCaseSensitive(f) == f.present /\ f.ext \in LOSSY_EXTENSIONS

IsLossy(f) == f.present /\ Lower(f.ext) \in LOSSY_EXTENSIONS

_validate_lossless(t) == \A i \in DOMAIN t : ~IsLossy(t[i])

(***************************************************************************)
(* _parse_flac_tags and _collect_transcode_items                           *)
(***************************************************************************)
_parse_flac_tags(f) ==
    IF f.tagkind = "None"
    THEN [ok |-> FALSE, tags |-> << >>, err |-> "no tags", keys |-> {}]
    ELSE IF f.tagkind # "VCFLACDict"
    THEN [ok |-> FALSE, tags |-> << >>, err |-> "not VCommentDict", keys |-> {}]
    ELSE _prepare_tags(f.tags)

\* src_path.rglob("*.flac"), sorted
FlacSlots(t) == {i \in DOMAIN t : t[i].present /\ t[i].ext = EXT_FLAC}

\* (a variant that names every output after the destination folder)
TranscodeItemOfFolder(i, f, root, tag_dict) ==
    [src |-> i, dst |-> os_path_join(root, os_path_basename(root) \o EXT_MP3),
     channels |-> f.channels, tags |-> tag_dict]

TranscodeItem(i, f, root, tag_dict) ==
    [src |-> i, dst |-> os_path_join(root, RelPath(i, EXT_MP3)),
     channels |-> f.channels, tags |-> tag_dict]

\* the loop of lines 221-225 from slot i on, items being the list so far:
\* the first file that does not parse ends it with the exception
RECURSIVE CollectFrom(_, _, _, _)
CollectFrom(t, root, i, acc) ==
    IF i > Len(t) THEN [ok |-> TRUE, items |-> acc]
    ELSE IF i \notin FlacSlots(t) THEN CollectFrom(t, root, i + 1, acc)
    ELSE IF ~_parse_flac_tags(t[i]).ok THEN [ok |-> FALSE, items |-> << >>]
    ELSE CollectFrom(t, root, i + 1,
             Append(acc, TranscodeItem(i, t[i], root, _parse_flac_tags(t[i]).tags)))

\* (a variant that leaves out the files that do not parse)
RECURSIVE CollectSkipping(_, _, _, _)
CollectSkipping(t, root, i, acc) ==
    IF i > Len(t) THEN [ok |-> TRUE, items |-> acc]
    ELSE IF i \notin FlacSlots(t) \/ ~_parse_flac_tags(t[i]).ok
    THEN CollectSkipping(t, root, i + 1, acc)
    ELSE CollectSkipping(t, root, i + 1,
             Append(acc, TranscodeItem(i, t[i], root, _parse_flac_tags(t[i]).tags)))

CollectPartial(t, root) == CollectSkipping(t, root, 1, << >>)

_collect_transcode_items(t, root) == CollectFrom(t, root, 1, << >>)

(***************************************************************************)
(* _copy_extra_files                                                       *)
(***************************************************************************)
IsSidecar(f) == f.present /\ Lower(f.ext) \in COPY_EXTENSIONS

SidecarSlots(t) == {i \in DOMAIN t : IsSidecar(t[i])}

CopyOf(i) == [kind |-> "copy", of |-> i, q |-> << >>, tagged |-> FALSE]

\* the directories and the files after the loop of lines 273-280
copy_extra_dirs(t, root, d) ==
    d \cup UNION {MkdirParents(root, i) : i \in SidecarSlots(t)}

\* (a variant that copies every file into the root itself)
copy_extra_flat(t, root, fl) ==
    LET out == {os_path_join(root, Stem(i) \o t[i].ext) : i \in SidecarSlots(t)}
    IN  [o \in (DOMAIN fl) \cup out |->
            IF o \in out
            THEN CopyOf(CHOOSE i \in SidecarSlots(t) :
                            o = os_path_join(root, Stem(i) \o t[i].ext))
            ELSE fl[o]]

copy_extra_files(t, root, fl) ==
    LET out == {os_path_join(root, RelPath(i, t[i].ext)) : i \in SidecarSlots(t)}
    IN  [o \in (DOMAIN fl) \cup out |->
            IF o \in out
            THEN CopyOf(CHOOSE i \in SidecarSlots(t) :
                            o = os_path_join(root, RelPath(i, t[i].ext)))
            ELSE fl[o]]

(***************************************************************************)
(* _transcode_one and _flac_to_mp3, one task per item                      *)
(***************************************************************************)
\* (a variant without the check)
ChannelsUnchecked(item) == TRUE

\* the check of line 332: FALSE when _transcode_one raises ValueError
ChannelsAllowed(item) == item.channels <= 2

\* (a variant with one name for all the items of an invocation)
SharedTemporaryFile(r, i) == <<"tmp", r, 0>>

\* tempfile.NamedTemporaryFile(delete=False, suffix=".wav"): a name no other
\* call has been given, here the invocation and the index of the item
NamedTemporaryFile(r, i) == <<"tmp", r, i>>

\* (a variant that removes the file after a successful encoding only)
UnlinkOnSuccess(tf, tmp_path, how) == IF how = "ok" THEN tf \ {tmp_path} ELSE tf

\* the finally clause of lines 312-314, on every way out of the try block:
\* "ok", "decode" and "encode" (a process failed), "KeyError" (no preset for
\* the label), "cancelled" (the task was cancelled while awaiting a process)
FinallyUnlink(tf, tmp_path, how) == tf \ {tmp_path}

Mp3Of(i, q, tagged) == [kind |-> "mp3", of |-> i, q |-> q, tagged |-> tagged]
PartialOf(i, q) == [kind |-> "partial", of |-> i, q |-> q, tagged |-> FALSE]

\* (a variant that does not keep an encoded file whose tag write failed)
PutUnlessUntagged(fl, path, content) ==
    IF content.kind = "mp3" /\ ~content.tagged THEN fl
    ELSE [o \in (DOMAIN fl) \cup {path} |-> IF o = path THEN content ELSE fl[o]]

Put(fl, path, content) ==
    [o \in (DOMAIN fl) \cup {path} |-> IF o = path THEN content ELSE fl[o]]

\* lines 300 and 308; the paths stand for themselves
flac_cmd(tmp_path, flac_path) ==
    <<"flac">> \o FLAC_DECODE_OPTIONS \o <<"-o", tmp_path, flac_path>>
lame_cmd(lame_qual, tmp_path, mp3_path) ==
    <<"lame">> \o LAME_COMMAND_MAP[lame_qual] \o LAME_OPTIONS \o <<tmp_path, mp3_path>>

\* what a failing process may have written to its standard error
Diagnostics == {"", "stderr text"}

\* the same in the invocations of transcode_folder, where the processes
\* that fail say why
PipelineDiagnostics == {"stderr text"}

\* the text of the RuntimeError of line 306 and of line 311
DecodeError(stderr) == "FLAC decoding failed with code <returncode>"
EncodeError(stderr) == IF stderr # "" THEN stderr ELSE "LAME encoding failed"

\* (a variant in which a task begins with the encoder)
NewTaskEncoding ==
    [st |-> "encoding", err |-> "", dec |-> "-", enc |-> "-", tag |-> "-",
     tmp |-> << >>, msg |-> "", stderr |-> "", flac_cmd |-> << >>, lame_cmd |-> << >>]

\* a task: its state, its error and the text of it, the results of its
\* decoder, encoder and tag write, its temporary file, the command lines it
\* has spawned and what the failing process wrote to its standard error
NewTask == [st |-> "pending", err |-> "", dec |-> "-", enc |-> "-", tag |-> "-",
            tmp |-> << >>, msg |-> "", stderr |-> "", flac_cmd |-> << >>,
            lame_cmd |-> << >>]

Terminal(t) == t.st \in {"done", "failed", "cancelled"}
InFlight(t) == t.st \in {"decoding", "encoding"}

(***************************************************************************)
(* process_files, the batch runner of salmon.common.files: it starts the   *)
(* units in the order of the list, at most MaxWorkers at a time, lets      *)
(* every unit run whatever its siblings do, and raises once all have       *)
(* ended if one of them failed                                             *)
(***************************************************************************)
RunnerMayStart(tk, i) ==
    /\ tk[i].st = "pending"
    /\ \A j \in 1..(i - 1) : tk[j].st # "pending"
    /\ Cardinality({j \in DOMAIN tk : InFlight(tk[j])}) < MaxWorkers

RunnerEnded(tk) == \A i \in DOMAIN tk : Terminal(tk[i])

RunnerRaises(tk) == \E i \in DOMAIN tk : tk[i].st # "done"

(***************************************************************************)
(* Initial states                                                          *)
(***************************************************************************)
NoDone == [dirs0 |-> {}, files0 |-> << >>, collected |-> FALSE, copies |-> 0,
           spawns |-> 0, tagwrites |-> 0]

PipelineOff ==
    /\ src = << >>
    /\ tree = << >>
    /\ dirs = {}
    /\ files = << >>
    /\ tmpfiles = {}
    /\ run = 0
    /\ pc = "off"
    /\ bitrate = << >>
    /\ new_path = << >>
    /\ items = << >>
    /\ task = << >>
    /\ result = ""
    /\ done = NoDone
    /\ returned = {}
    /\ description = << >>

NamerOff ==
    /\ nm_path = << >>
    /\ nm_bitrate = << >>
    /\ nm_out = << >>
    /\ nm_pc = "off"

TagsOff ==
    /\ tg_tags = << >>
    /\ tg_out = << >>
    /\ tg_pc = "off"

WriterOff ==
    /\ wr_tags = << >>
    /\ wr_pics = << >>
    /\ wr_mp3 = ""
    /\ wr_frames = << >>
    /\ wr_pc = "off"

\* the album directory exists under its parent, nothing has been transcoded
Init ==
    /\ NamerOff /\ TagsOff /\ WriterOff
    /\ src \in PipelineSources
    /\ tree \in [Slots -> FileKinds]
    /\ dirs = {os_path_dirname(src)}
    /\ files = << >>
    /\ tmpfiles = {}
    /\ run = 0
    /\ pc = "idle"
    /\ bitrate = << >>
    /\ new_path = << >>
    /\ items = << >>
    /\ task = << >>
    /\ result = ""
    /\ done = NoDone
    /\ returned = {}
    /\ description = << >>

(***************************************************************************)
(* transcode_folder                                                        *)
(***************************************************************************)
\* a caller invokes transcode_folder(src, b)
Call(b) ==
    /\ pc \in {"idle", "returned", "raised", "described"}
    /\ run < MaxRuns
    /\ run' = run + 1
    /\ pc' = "validate"
    /\ bitrate' = b
    /\ new_path' = << >>
    /\ items' = << >>
    /\ task' = << >>
    /\ result' = ""
    /\ done' = [NoDone EXCEPT !.dirs0 = dirs, !.files0 = files]
    /\ description' = << >>
    /\ UNCHANGED <<nmvars, tgvars, wrvars, src, tree, fsvars, returned>>

\* line 357
Validate ==
    /\ pc = "validate"
    /\ IF _validate_lossless(tree)
       THEN pc' = "name" /\ result' = result
       ELSE pc' = "raised" /\ result' = "Abort"
    /\ UNCHANGED <<nmvars, tgvars, wrvars, description, src, tree, fsvars, run, bitrate, new_path, items, task,
                   done, returned>>

\* line 358
Name ==
    /\ pc = "name"
    /\ new_path' = _build_output_path(src, bitrate)
    /\ pc' = "isdir"
    /\ UNCHANGED <<nmvars, tgvars, wrvars, description, src, tree, fsvars, run, bitrate, items, task, result,
                   done, returned>>

\* lines 360-362
IsDir ==
    /\ pc = "isdir"
    /\ IF new_path \in dirs
       THEN pc' = "returned" /\ result' = "exists" /\ returned' = returned \cup {<<bitrate, new_path>>}
       ELSE pc' = "collect" /\ result' = result /\ returned' = returned
    /\ UNCHANGED <<nmvars, tgvars, wrvars, description, src, tree, fsvars, run, bitrate, new_path, items, task, done>>

\* line 364
Collect ==
    /\ pc = "collect"
    /\ LET r == _collect_transcode_items(tree, new_path)
       IN  IF r.ok
           THEN pc' = "copy" /\ items' = r.items /\ result' = result
           ELSE pc' = "raised" /\ items' = items /\ result' = "ValueError"
    /\ done' = [done EXCEPT !.collected = TRUE]
    /\ UNCHANGED <<nmvars, tgvars, wrvars, description, src, tree, fsvars, run, bitrate, new_path, task, returned>>

\* (a variant that starts the tasks and leaves the copying undone)
StartWithoutCopying ==
    /\ pc = "copy"
    /\ task' = [i \in 1..Len(items) |-> NewTask]
    /\ pc' = "engine"
    /\ UNCHANGED <<nmvars, tgvars, wrvars, description, src, tree, fsvars, run, bitrate,
                   new_path, items, result, done, returned>>

\* line 365, and the entry of _transcode_audio_files: one task per item
Copy ==
    /\ pc = "copy"
    /\ dirs' = copy_extra_dirs(tree, new_path, dirs)
    /\ files' = copy_extra_files(tree, new_path, files)
    /\ done' = [done EXCEPT !.copies = Cardinality(SidecarSlots(tree))]
    /\ task' = [i \in 1..Len(items) |-> NewTask]
    /\ pc' = "engine"
    /\ UNCHANGED <<nmvars, tgvars, wrvars, description, src, tree, tmpfiles, run, bitrate, new_path, items, result,
                   returned>>

\* the runner starts _transcode_one for item i, which runs to its first
\* await: the channel check, the mkdir, the temporary file, the decoder
StartTask(i) ==
    /\ pc = "engine"
    /\ i \in DOMAIN task
    /\ RunnerMayStart(task, i)
    /\ IF ChannelsAllowed(items[i])
       THEN LET tmp_path == NamedTemporaryFile(run, i)
            IN  /\ dirs' = dirs \cup MkdirParents(new_path, items[i].src)
                /\ tmpfiles' = tmpfiles \cup {tmp_path}
                /\ task' = [task EXCEPT ![i].st = "decoding", ![i].tmp = tmp_path,
                                        ![i].flac_cmd = flac_cmd("tmp_path", "flac_path")]
                /\ done' = [done EXCEPT !.spawns = @ + 1]
       ELSE /\ task' = [task EXCEPT ![i].st = "failed", ![i].err = "channels",
                                    ![i].msg = "Cannot convert to MP3."]
            /\ UNCHANGED <<dirs, tmpfiles, done>>
    /\ UNCHANGED <<nmvars, tgvars, wrvars, description, src, tree, files, run, pc, bitrate, new_path, items, result,
                   returned>>

\* the decoder of item i exits, with code 0 (ok) or another and then with
\* diag on its standard error; after a decoding the task goes on to its
\* next await, the encoder
DecoderExit(i, ok, diag) ==
    /\ pc = "engine"
    /\ i \in DOMAIN task
    /\ task[i].st = "decoding"
    /\ IF ~ok
       THEN /\ tmpfiles' = FinallyUnlink(tmpfiles, task[i].tmp, "decode")
            /\ task' = [task EXCEPT ![i].st = "failed", ![i].err = "decode",
                                    ![i].dec = "fail", ![i].stderr = diag,
                                    ![i].msg = DecodeError(diag)]
            /\ done' = done
       ELSE IF bitrate \notin LAME_COMMAND_MAP_keys
       THEN /\ tmpfiles' = FinallyUnlink(tmpfiles \cup {task[i].tmp}, task[i].tmp, "KeyError")
            /\ task' = [task EXCEPT ![i].st = "failed", ![i].err = "KeyError",
                                    ![i].dec = "ok", ![i].msg = "KeyError"]
            /\ done' = done
       ELSE /\ tmpfiles' = tmpfiles \cup {task[i].tmp}
            /\ task' = [task EXCEPT ![i].st = "encoding", ![i].dec = "ok",
                                    ![i].lame_cmd = lame_cmd(bitrate, "tmp_path", "mp3_path")]
            /\ done' = [done EXCEPT !.spawns = @ + 1]
    /\ UNCHANGED <<nmvars, tgvars, wrvars, description, src, tree, dirs, files, run, pc, bitrate, new_path, items,
                   result, returned>>

\* the encoder of item i exits: with code 0 if it would (ok) and its input
\* is there, and then _copy_tags runs, which succeeds (tagok) or raises;
\* a failing encoder may leave a partial output (left), and has written
\* diag to its standard error
EncoderExit(i, ok, left, tagok, diag) ==
    /\ pc = "engine"
    /\ i \in DOMAIN task
    /\ task[i].st = "encoding"
    /\ IF ok /\ task[i].tmp \in tmpfiles
       THEN /\ tmpfiles' = FinallyUnlink(tmpfiles, task[i].tmp, "ok")
            /\ files' = Put(files, items[i].dst, Mp3Of(items[i].src, bitrate, tagok))
            /\ task' = [task EXCEPT ![i].st = IF tagok THEN "done" ELSE "failed",
                                    ![i].err = IF tagok THEN "" ELSE "tags",
                                    ![i].enc = "ok",
                                    ![i].tag = IF tagok THEN "ok" ELSE "fail",
                                    ![i].msg = IF tagok THEN ""
                                               ELSE "Failed to create tags for MP3 file"]
            /\ done' = [done EXCEPT !.tagwrites = @ + (IF tagok THEN 1 ELSE 0)]
       ELSE /\ tmpfiles' = FinallyUnlink(tmpfiles, task[i].tmp, "encode")
            /\ files' = IF left THEN Put(files, items[i].dst, PartialOf(items[i].src, bitrate))
                        ELSE files
            /\ task' = [task EXCEPT ![i].st = "failed", ![i].err = "encode",
                                    ![i].enc = IF ok THEN "ok" ELSE "fail",
                                    ![i].stderr = diag, ![i].msg = EncodeError(diag)]
            /\ done' = done
    /\ UNCHANGED <<nmvars, tgvars, wrvars, description, src, tree, dirs, run, pc, bitrate, new_path, items, result,
                   returned>>

\* the invocation is cancelled from outside (a user interrupt) while tasks
\* await their processes: each of them gets the cancellation at its await,
\* the tasks not yet started never run; the encoders in L leave a partial
\* output
Cancel(L) ==
    /\ pc = "engine"
    /\ \E i \in DOMAIN task : InFlight(task[i])
    /\ L \subseteq {i \in DOMAIN task : task[i].st = "encoding"}
    /\ tmpfiles' = {q \in tmpfiles :
                       \A i \in DOMAIN task :
                           InFlight(task[i]) =>
                               q \in FinallyUnlink(tmpfiles, task[i].tmp, "cancelled")}
    /\ files' = [o \in (DOMAIN files) \cup {items[i].dst : i \in L} |->
                    IF \E i \in L : items[i].dst = o
                    THEN PartialOf(items[CHOOSE i \in L : items[i].dst = o].src, bitrate)
                    ELSE files[o]]
    /\ task' = [i \in DOMAIN task |->
                   IF Terminal(task[i]) THEN task[i]
                   ELSE [task[i] EXCEPT !.st = "cancelled", !.err = "cancelled"]]
    /\ pc' = "raised"
    /\ result' = "cancelled"
    /\ UNCHANGED <<nmvars, tgvars, wrvars, description, src, tree, dirs, run, bitrate, new_path, items, done, returned>>

\* process_files returns or raises, and with it transcode_folder (line 368)
Finish ==
    /\ pc = "engine"
    /\ RunnerEnded(task)
    /\ IF RunnerRaises(task)
       THEN pc' = "raised" /\ result' = "failed" /\ returned' = returned
       ELSE pc' = "returned" /\ result' = "ok" /\ returned' = returned \cup {<<bitrate, new_path>>}
    /\ UNCHANGED <<nmvars, tgvars, wrvars, description, src, tree, fsvars, run, bitrate, new_path, items, task, done>>

\* generate_transcode_description: the text, as the source it names and
\* the words of the command line between [code] and [/code]; ok is FALSE
\* for the KeyError of a label that has no entry
generate_transcode_description(url, b) ==
    IF b = S_320
    THEN [ok |-> TRUE, source |-> url,
          process |-> <<"flac", "-dcs", "--", "input.flac", "|", "lame", "-S",
                        "-h", "-b", "320", "--ignore-tag-errors", "-", "output.mp3">>]
    ELSE IF b = S_V0
    THEN [ok |-> TRUE, source |-> url,
          process |-> <<"flac", "-dcs", "--", "input.flac", "|", "lame", "-S",
                        "-V", "0", "--vbr-new", "--ignore-tag-errors", "-", "output.mp3">>]
    ELSE [ok |-> FALSE, source |-> url, process |-> << >>]

\* the caller, with the path transcode_folder has returned, asks for the
\* description of the transcode (upload, line 598)
Describe ==
    /\ pc = "returned"
    /\ description' = generate_transcode_description("url", bitrate)
    /\ pc' = "described"
    /\ UNCHANGED <<nmvars, tgvars, wrvars, src, tree, fsvars, run, bitrate, new_path,
                   items, task, result, done, returned>>

Next ==
    \/ \E b \in Labels : Call(b)
    \/ Describe
    \/ Validate
    \/ Name
    \/ IsDir
    \/ Collect
    \/ Copy
    \/ \E i \in Slots : StartTask(i)
    \/ \E i \in Slots, ok \in BOOLEAN, diag \in PipelineDiagnostics :
           DecoderExit(i, ok, diag)
    \/ \E i \in Slots, how \in {"ok", "tags", "fail", "partial"},
             diag \in PipelineDiagnostics :
           EncoderExit(i, how \in {"ok", "tags"}, how = "partial", how = "ok", diag)
    \/ \E L \in SUBSET Slots : Cancel(L)
    \/ Finish

Spec == Init /\ [][Next]_vars

(***************************************************************************)
(* _transcode_audio_files alone: the first invocation of transcode_folder  *)
(* from line 366 on, for every label                                       *)
(***************************************************************************)
InitEngine ==
    /\ NamerOff /\ TagsOff /\ WriterOff
    /\ src \in PipelineSources
    /\ tree \in [Slots -> FileKinds]
    /\ bitrate \in EngineLabels
    /\ _validate_lossless(tree)
    /\ new_path = _build_output_path(src, bitrate)
    /\ _collect_transcode_items(tree, new_path).ok
    /\ items = _collect_transcode_items(tree, new_path).items
    /\ dirs = copy_extra_dirs(tree, new_path, {os_path_dirname(src)})
    /\ files = copy_extra_files(tree, new_path, << >>)
    /\ tmpfiles = {}
    /\ run = 1
    /\ pc = "engine"
    /\ task = [i \in 1..Len(items) |-> NewTask]
    /\ result = ""
    /\ done = [NoDone EXCEPT !.dirs0 = {os_path_dirname(src)}, !.collected = TRUE,
                             !.copies = Cardinality(SidecarSlots(tree))]
    /\ returned = {}
    /\ description = << >>

NextEngine ==
    \/ \E i \in Slots : StartTask(i)
    \/ \E i \in Slots, ok \in BOOLEAN, diag \in Diagnostics : DecoderExit(i, ok, diag)
    \/ \E i \in Slots, how \in {"ok", "tags", "fail", "partial"}, diag \in Diagnostics :
           EncoderExit(i, how \in {"ok", "tags"}, how = "partial", how = "ok", diag)
    \/ \E L \in SUBSET Slots : Cancel(L)
    \/ Finish

SpecEngine == InitEngine /\ [][NextEngine]_vars

(***************************************************************************)
(* _build_output_path alone: every path made of at most MaxTokens tokens,  *)
(* and the paths of the documented examples                                *)
(***************************************************************************)
S_Lossless == <<"L", "o", "s", "s", "l", "e", "s", "s">>

NameTokens ==
    {<<"A">>, <<" ">>, <<"/">>, <<"]">>, S_FLAC_OPEN, S_Lossless,
     <<"l", "O", "S", "S", "L", "E", "S", "S">>}

P_FLAC == <<"/", "m", "/", "A", "r", "t", "i", "s", "t", " ", "-", " ", "A", "l", "b", "u", "m", " ", "[", "F", "L", "A", "C", "]">>
P_FLAC_LOSSLESS == <<"/", "m", "/", "A", "r", "t", "i", "s", "t", " ", "-", " ", "A", "l", "b", "u", "m", " ", "[", "F", "L", "A", "C", " ", "L", "o", "s", "s", "l", "e", "s", "s", "]">>
P_PAREN_LOSSLESS == <<"/", "m", "/", "A", "r", "t", "i", "s", "t", " ", "-", " ", "A", "l", "b", "u", "m", " ", "(", "L", "o", "s", "s", "l", "e", "s", "s", ")">>
P_PLAIN == <<"/", "m", "/", "A", "r", "t", "i", "s", "t", " ", "-", " ", "A", "l", "b", "u", "m">>

NamerPaths ==
    {Flatten(ts) : ts \in UNION {[1..n -> NameTokens] : n \in 0..MaxTokens}}
        \cup {P_FLAC, P_FLAC_LOSSLESS, P_PAREN_LOSSLESS, P_PLAIN}

InitNamer ==
    /\ PipelineOff /\ TagsOff /\ WriterOff
    /\ nm_path \in NamerPaths
    /\ nm_bitrate \in Labels
    /\ nm_out = << >>
    /\ nm_pc = "in"

NamerCall ==
    /\ nm_pc = "in"
    /\ nm_out' = _build_output_path(nm_path, nm_bitrate)
    /\ nm_pc' = "out"
    /\ UNCHANGED <<nm_path, nm_bitrate, tgvars, wrvars, pvars>>

NextNamer == NamerCall

SpecNamer == InitNamer /\ [][NextNamer]_vars

(***************************************************************************)
(* _prepare_tags alone: every raw tag mapping made of the keys below, each *)
(* absent or with one of its values                                        *)
(***************************************************************************)
TagKeys ==
    <<K_tracknumber, K_tracktotal, K_totaltracks, K_total_tracks,
      K_discnumber, K_disctotal, K_totaldiscs, K_total_discs,
      K_replaygain_track_gain, K_encoder, K_title>>

\* a value is a sequence of strings
TagValues(k) ==
    IF k = K_tracknumber THEN {<< <<"3">> >>, << <<"3">>, <<"4">> >>}
    ELSE IF k = K_tracktotal THEN {<< <<"1", "2">> >>, << <<"0", "1", "2">> >>}
    ELSE IF k = K_totaltracks THEN {<< <<"1", "2">> >>, << <<"1", "1">> >>}
    ELSE IF k = K_total_tracks THEN {<< <<"1", "2">> >>, << <<"x">> >>}
    ELSE IF k = K_discnumber THEN {<< <<"1">> >>}
    ELSE IF k = K_disctotal THEN {<< <<"2">> >>}
    ELSE IF k = K_totaldiscs THEN {<< <<"2">> >>, << <<"3">> >>}
    ELSE IF k = K_total_discs THEN {<< <<"2">> >>}
    ELSE IF k = K_replaygain_track_gain THEN {<< <<"-", "3", " ", "d", "B">> >>}
    ELSE IF k = K_encoder THEN {<< <<"x">> >>}
    ELSE {<< <<"t">> >>}

RECURSIVE TagMaps(_)
TagMaps(ks) ==
    IF ks = << >> THEN {<< >>}
    ELSE LET rest == TagMaps(Tail(ks))
         IN  rest \cup {(Head(ks) :> v) @@ m : v \in TagValues(Head(ks)), m \in rest}

InitTags ==
    /\ PipelineOff /\ NamerOff /\ WriterOff
    /\ tg_tags \in TagMaps(TagKeys)
    /\ tg_out = << >>
    /\ tg_pc = "in"

PrepareCall ==
    /\ tg_pc = "in"
    /\ tg_out' = _prepare_tags(tg_tags)
    /\ tg_pc' = "out"
    /\ UNCHANGED <<tg_tags, nmvars, wrvars, pvars>>

NextTags == PrepareCall

SpecTags == InitTags /\ [][NextTags]_vars

(***************************************************************************)
(* _get_id3_frame and _copy_tags.  A frame is a record; the tag container  *)
(* (mutagen's ID3) is a mapping from the hash key of a frame to the frame, *)
(* and its add() stores the frame under its hash key, in place of a frame  *)
(* that has the same hash key                                              *)
(***************************************************************************)
K_album == <<"a", "l", "b", "u", "m">>
K_artist == <<"a", "r", "t", "i", "s", "t">>
K_albumartist == <<"a", "l", "b", "u", "m", "a", "r", "t", "i", "s", "t">>
K_album_artist == <<"a", "l", "b", "u", "m", " ", "a", "r", "t", "i", "s", "t">>
K_conductor == <<"c", "o", "n", "d", "u", "c", "t", "o", "r">>
K_remixer == <<"r", "e", "m", "i", "x", "e", "r">>
K_composer == <<"c", "o", "m", "p", "o", "s", "e", "r">>
K_date == <<"d", "a", "t", "e">>
K_comment == <<"c", "o", "m", "m", "e", "n", "t">>
K_genre == <<"g", "e", "n", "r", "e">>
K_language == <<"l", "a", "n", "g", "u", "a", "g", "e">>
K_key == <<"k", "e", "y">>
K_bpm == <<"b", "p", "m">>
K_publisher == <<"p", "u", "b", "l", "i", "s", "h", "e", "r">>
K_label == <<"l", "a", "b", "e", "l">>
K_isrc == <<"i", "s", "r", "c">>
K_mood == <<"m", "o", "o", "d">>

VORBIS_TO_ID3_MAP ==
    (K_title :> "TIT2") @@ (K_album :> "TALB") @@ (K_artist :> "TPE1") @@
        (K_albumartist :> "TPE2") @@ (K_album_artist :> "TPE2") @@
        (K_conductor :> "TPE3") @@ (K_remixer :> "TPE4") @@
        (K_composer :> "TCOM") @@ (K_tracknumber :> "TRCK") @@
        (K_discnumber :> "TPOS") @@ (K_date :> "TDRC") @@
        (K_comment :> "COMM") @@ (K_genre :> "TCON") @@
        (K_language :> "TLAN") @@ (K_key :> "TKEY") @@ (K_bpm :> "TBPM") @@
        (K_publisher :> "TPUB") @@ (K_label :> "TPUB") @@ (K_isrc :> "TSRC")

TextFrame(frame_name, desc, text) ==
    [id |-> frame_name, desc |-> desc, text |-> text, mime |-> "", type |-> 0, data |-> ""]

\* APIC(encoding=3, mime=pic.mime, type=pic.type, desc=pic.desc, data=pic.data)
APIC(pic) ==
    [id |-> "APIC", desc |-> pic.desc, text |-> << >>, mime |-> pic.mime,
     type |-> pic.type, data |-> pic.data]

_get_id3_frame(tag_name, tag_value) ==
    IF tag_name \in DOMAIN VORBIS_TO_ID3_MAP
    THEN TextFrame(VORBIS_TO_ID3_MAP[tag_name], << >>, tag_value)
    ELSE TextFrame("TXXX", tag_name, tag_value)

\* Frame.HashKey: the frame identifier, and for TXXX and APIC the description
HashKey(frame) ==
    IF frame.id \in {"TXXX", "APIC"} THEN <<frame.id, frame.desc>>
    ELSE <<frame.id, << >> >>

\* mp3_thing.tags.add(frame)
Add(tags_, frame) ==
    [h \in (DOMAIN tags_) \cup {HashKey(frame)} |->
        IF h = HashKey(frame) THEN frame ELSE tags_[h]]

\* the loop of lines 254-255 over tag_dict.items(), from the n-th item on
RECURSIVE AddTagFrames(_, _, _)
AddTagFrames(tags_, tag_items, n) ==
    IF n > Len(tag_items) THEN tags_
    ELSE AddTagFrames(Add(tags_, _get_id3_frame(tag_items[n][1], tag_items[n][2])),
                      tag_items, n + 1)

\* the loop of lines 257-258 over flac_obj.pictures
RECURSIVE AddPictureFrames(_, _, _)
AddPictureFrames(tags_, pictures, n) ==
    IF n > Len(pictures) THEN tags_
    ELSE AddPictureFrames(Add(tags_, APIC(pictures[n])), pictures, n + 1)

\* what mp3.MP3(mp3_path) finds in the encoded file: a tag with the frame
\* the encoder wrote, no tag (add_tags() makes an empty one), or a file on
\* which add_tags() leaves tags None
TSSE == TextFrame("TSSE", << >>, << <<"L", "A", "M", "E">> >>)
Mp3States == {"tag", "no tag", "untaggable"}
TagsOfMp3(mp3_state) == IF mp3_state = "tag" THEN (HashKey(TSSE) :> TSSE) ELSE << >>

\* the container that save() writes, ok FALSE for the ValueError of line 252
_copy_tags(tag_items, pictures, mp3_state) ==
    IF mp3_state = "untaggable" THEN [ok |-> FALSE, frames |-> << >>]
    ELSE [ok |-> TRUE,
          frames |-> AddPictureFrames(AddTagFrames(TagsOfMp3(mp3_state), tag_items, 1),
                                      pictures, 1)]

(***************************************************************************)
(* _copy_tags alone: the items of every tag_dict of at most MaxTags of the *)
(* keys below, in every order, and every list of at most MaxPics distinct   *)
(* pictures                                                                *)
(***************************************************************************)
WriterKeys == {K_title, K_albumartist, K_album_artist, K_publisher, K_label, K_mood}

\* each key has a value of its own, the title two
WriterValue(k) ==
    IF k = K_title THEN << <<"t">>, <<"u">> >>
    ELSE IF k = K_albumartist THEN << <<"a">> >>
    ELSE IF k = K_album_artist THEN << <<"b">> >>
    ELSE IF k = K_publisher THEN << <<"p">> >>
    ELSE IF k = K_label THEN << <<"l">> >>
    ELSE << <<"m">> >>

\* a front cover and a back cover without description, and a described one
Pictures ==
    {[mime |-> "image/jpeg", type |-> 3, desc |-> << >>, data |-> "front"],
     [mime |-> "image/jpeg", type |-> 4, desc |-> << >>, data |-> "back"],
     [mime |-> "image/png", type |-> 3, desc |-> <<"x">>, data |-> "other"]}

WriterTagItems ==
    {[n \in 1..Len(ks) |-> <<ks[n], WriterValue(ks[n])>>] :
        ks \in {q \in UNION {[1..n -> WriterKeys] : n \in 0..MaxTags} :
                   \A a, b \in 1..Len(q) : a # b => q[a] # q[b]}}

WriterPictures ==
    {q \in UNION {[1..n -> Pictures] : n \in 0..MaxPics} :
        \A a, b \in 1..Len(q) : a # b => q[a] # q[b]}

InitWriter ==
    /\ PipelineOff /\ NamerOff /\ TagsOff
    /\ wr_tags \in WriterTagItems
    /\ wr_pics \in WriterPictures
    /\ wr_mp3 \in Mp3States
    /\ wr_frames = << >>
    /\ wr_pc = "in"

CopyTagsCall ==
    /\ wr_pc = "in"
    /\ wr_frames' = _copy_tags(wr_tags, wr_pics, wr_mp3).frames
    /\ wr_pc' = IF _copy_tags(wr_tags, wr_pics, wr_mp3).ok THEN "out" ELSE "raised"
    /\ UNCHANGED <<wr_tags, wr_pics, wr_mp3, nmvars, tgvars, pvars>>

NextWriter == CopyTagsCall

SpecWriter == InitWriter /\ [][NextWriter]_vars

(***************************************************************************)
(* Properties of transcode_folder (specification Spec) and of               *)
(* _transcode_audio_files (specification SpecEngine)                       *)
(***************************************************************************)
\* the first invocation of Spec enters the engine in an initial state of
\* SpecEngine
EngineEntry ==
    (pc = "engine" /\ run = 1 /\ \A i \in DOMAIN task : task[i] = NewTask) =>
        /\ new_path = _build_output_path(src, bitrate)
        /\ items = _collect_transcode_items(tree, new_path).items
        /\ dirs = copy_extra_dirs(tree, new_path, {os_path_dirname(src)})
        /\ files = copy_extra_files(tree, new_path, << >>)
        /\ task = [i \in 1..Len(items) |-> NewTask]
        /\ done = [NoDone EXCEPT !.dirs0 = {os_path_dirname(src)}, !.collected = TRUE,
                                 !.copies = Cardinality(SidecarSlots(tree))]
        /\ tmpfiles = {} /\ returned = {} /\ result = ""

\* the current invocation has found no directory at new_path and gone on
Working == pc \in {"collect", "copy", "engine"}

\* C1: an invocation on a source and label for which an earlier invocation
\* has returned a path finds the destination directory existing: it never
\* goes on to the Collector, the Copier or the engine.
C1_SecondRunShortCircuits ==
    Working => <<bitrate, new_path>> \notin returned

\* C2: once an item task has terminated (done, failed or cancelled), the
\* temporary file made for it does not exist.
C2_TmpRemoved ==
    \A i \in DOMAIN task :
        Terminal(task[i]) =>
            /\ task[i].tmp \notin tmpfiles
            /\ NamedTemporaryFile(run, i) \notin tmpfiles

\* one task has ended on the missing preset of its label, the other was
\* cancelled while its process ran: both had made their temporary file
C2_Witness ==
    /\ Len(task) = 2
    /\ task[1].err = "KeyError" /\ task[1].tmp # << >>
    /\ task[2].st = "cancelled" /\ task[2].tmp # << >>

\* what the task of an item ends with when nothing but its own channel
\* count, the label and the results of its own processes and tag write
\* decide it
AloneOutcome(item, q, dec, enc, tag) ==
    IF item.channels > 2 THEN "channels"
    ELSE IF dec = "fail" THEN "decode"
    ELSE IF q \notin LAME_COMMAND_MAP_keys THEN "KeyError"
    ELSE IF enc = "fail" THEN "encode"
    ELSE IF tag = "fail" THEN "tags"
    ELSE ""

\* C3: a task that has ended without being cancelled from outside has the
\* outcome it would have had alone; no task is cancelled because a sibling
\* failed; transcode_folder reports the failure of an item only when every
\* task has run to its end.
C3_FailureIsolation ==
    /\ \A i \in DOMAIN task :
           /\ (Terminal(task[i]) /\ task[i].st # "cancelled") =>
                  /\ task[i].err =
                         AloneOutcome(items[i], bitrate, task[i].dec, task[i].enc, task[i].tag)
                  /\ (task[i].st = "done") = (task[i].err = "")
                  /\ (task[i].err = "") => task[i].tag = "ok"
           /\ task[i].st = "cancelled" => result = "cancelled"
    /\ result = "failed" =>
           \A i \in DOMAIN task : task[i].st \in {"done", "failed"}

\* the first item has failed its channel check and the second has still
\* been decoded, encoded and tagged; then the failure is reported
C3_Witness ==
    /\ result = "failed"
    /\ Len(task) = 2
    /\ task[1].err = "channels"
    /\ task[2].st = "done"

\* C4: an item with more than 2 channels fails with the channel-count
\* error, and neither a process nor a temporary file nor a destination file
\* is ever made for it.
C4_ChannelCheckFirst ==
    \A i \in DOMAIN task :
        items[i].channels > 2 =>
            /\ task[i].st \in {"pending", "failed", "cancelled"}
            /\ task[i].st = "failed" => task[i].err = "channels"
            /\ task[i].st = "cancelled" => result = "cancelled"
            /\ task[i].dec = "-" /\ task[i].enc = "-" /\ task[i].tag = "-"
            /\ task[i].tmp = << >>
            /\ NamedTemporaryFile(run, i) \notin tmpfiles
            /\ items[i].dst \notin DOMAIN files

C4_Witness ==
    /\ pc = "raised"
    /\ Len(task) = 2
    /\ \A i \in {1, 2} : items[i].channels > 2 /\ task[i].err = "channels"
    /\ done.spawns = 0
    /\ new_path \notin dirs

\* C5: with a file of a lossy extension (in any case) under the source,
\* every invocation ends in the validation error, and nothing has been
\* created, copied or spawned.
C5_LossyAborts ==
    (\E i \in Slots :
         tree[i].present
         /\ Lower(tree[i].ext) \in
                {EXT_MP3, <<".", "m", "4", "a">>, <<".", "o", "g", "g">>,
                 <<".", "o", "p", "u", "s">>})
    => /\ pc \in {"idle", "validate", "raised"}
       /\ pc = "raised" => result = "Abort"
       /\ dirs = {os_path_dirname(src)}
       /\ files = << >>
       /\ tmpfiles = {}
       /\ done.copies = 0 /\ done.spawns = 0 /\ ~done.collected

\* an upper-case .MP3 beside a sidecar that would have been copied
C5_Witness ==
    /\ pc = "raised" /\ result = "Abort"
    /\ tree[1] = PlainFile(<<".", "M", "P", "3">>)
    /\ tree[2] = PlainFile(EXT_JPG)

\* C6: with a FLAC file that has no tag block, a tag block of another kind
\* or conflicting totals, every invocation fails in the Collector: there is
\* no work list, no task and no process, and nothing is copied.
C6_CollectFailFast ==
    (/\ \A i \in Slots : ~(tree[i].present /\ Lower(tree[i].ext) \in LOSSY_EXTENSIONS)
     /\ \E i \in Slots :
            /\ tree[i].present /\ tree[i].ext = EXT_FLAC
            /\ tree[i].tagkind # "VCFLACDict" \/ tree[i].tags = RAW_CONFLICT)
    => /\ pc \in {"idle", "validate", "name", "isdir", "collect", "raised"}
       /\ pc = "raised" => result = "ValueError"
       /\ items = << >> /\ task = << >>
       /\ done.spawns = 0 /\ done.copies = 0
       /\ dirs = {os_path_dirname(src)} /\ files = << >> /\ tmpfiles = {}

\* the file with the conflict comes after one that parses
C6_Witness ==
    /\ pc = "raised" /\ result = "ValueError"
    /\ tree[1] = FlacFile(2, "VCFLACDict", RAW_OK)
    /\ tree[2] = FlacFile(2, "VCFLACDict", RAW_CONFLICT)

\* C7: when an invocation returns a path, every FLAC file of the source has
\* its encoded and tagged file under that path.
C7_ReturnIsFullSuccess ==
    pc = "returned" =>
        \A i \in FlacSlots(tree) :
            LET dst == os_path_join(new_path, RelPath(i, EXT_MP3))
            IN  /\ dst \in DOMAIN files
                /\ files[dst].kind = "mp3"
                /\ files[dst].of = i
                /\ files[dst].tagged

(***************************************************************************)
(* Properties of _build_output_path (specification SpecNamer)              *)
(***************************************************************************)
\* the characters of w stand in s from position i on
Reads(s, i, w) ==
    /\ i + Len(w) - 1 <= Len(s)
    /\ \A k \in 1..Len(w) : s[i + k - 1] = w[k]

\* the basename has a bracketed token that begins with FLAC
HasFlacBracket(s) ==
    \E i, j \in 1..Len(s) :
        /\ Reads(s, i, <<"[", "F", "L", "A", "C">>)
        /\ j > i + 4
        /\ s[j] = "]"

FirstFlacBracket(s) ==
    CHOOSE i \in 1..Len(s) :
        /\ Reads(s, i, <<"[", "F", "L", "A", "C">>)
        /\ \A k \in 1..(i - 1) : ~Reads(s, k, <<"[", "F", "L", "A", "C">>)

\* the positions where a "Lossless" word starts, in any case
LosslessAt(s) ==
    {i \in 1..Len(s) :
        i + 7 <= Len(s) /\ Lower(SubSeq(s, i, i + 7)) = <<"l", "o", "s", "s", "l", "e", "s", "s">>}

\* s with every "Lossless" word replaced by the label, position by position
WithLabelForLossless(s, label) ==
    Flatten([i \in 1..Len(s) |->
                IF i \in LosslessAt(s) THEN label
                ELSE IF \E k \in LosslessAt(s) : k < i /\ i <= k + 7 THEN << >>
                ELSE <<s[i]>>])

\* s with the FLAC of its first FLAC bracket replaced by repl
WithFormat(s, repl) ==
    SubSeq(s, 1, FirstFlacBracket(s)) \o repl \o From(s, FirstFlacBracket(s) + 5)

NamerIn == os_path_basename(nm_path)
NamerOut == os_path_basename(nm_out)

\* C8: case 1b, a FLAC bracket and no "Lossless" word: the bracket stays,
\* with MP3 <label> for FLAC; "Artist - Album [FLAC]" and V0 give
\* "Artist - Album [MP3 V0]".
C8_Case1b ==
    (nm_pc = "out" /\ HasFlacBracket(NamerIn) /\ LosslessAt(NamerIn) = {}) =>
        /\ NamerOut = WithFormat(NamerIn, <<"M", "P", "3", " ">> \o nm_bitrate)
        /\ (nm_path = P_FLAC /\ nm_bitrate = S_V0) =>
               NamerOut = <<"A", "r", "t", "i", "s", "t", " ", "-", " ", "A", "l", "b", "u", "m", " ", "[", "M", "P", "3", " ", "V", "0", "]">>

\* C9: case 1a, a FLAC bracket and a "Lossless" word: the bracket stays,
\* with MP3 for FLAC and the label for "Lossless";
\* "Artist - Album [FLAC Lossless]" and 320 give "Artist - Album [MP3 320]".
C9_Case1a ==
    (nm_pc = "out" /\ HasFlacBracket(NamerIn) /\ LosslessAt(NamerIn) # {}) =>
        /\ NamerOut = WithLabelForLossless(WithFormat(NamerIn, <<"M", "P", "3">>), nm_bitrate)
        /\ (nm_path = P_FLAC_LOSSLESS /\ nm_bitrate = S_320) =>
               NamerOut = <<"A", "r", "t", "i", "s", "t", " ", "-", " ", "A", "l", "b", "u", "m", " ", "[", "M", "P", "3", " ", "3", "2", "0", "]">>

\* C10: cases 2 and 3, no FLAC bracket: the destination basename is the
\* source basename with the label for every "Lossless" word, followed by
\* " [MP3]" when there was such a word and by " [MP3 <label>]" when there
\* was none; "Artist - Album (Lossless)" and V0 give
\* "Artist - Album (V0) [MP3]", "Artist - Album" and 320 give
\* "Artist - Album [MP3 320]".
C10_Cases2And3 ==
    (nm_pc = "out" /\ ~HasFlacBracket(NamerIn)) =>
        /\ LosslessAt(NamerIn) # {} =>
               NamerOut = WithLabelForLossless(NamerIn, nm_bitrate)
                              \o <<" ", "[", "M", "P", "3", "]">>
        /\ LosslessAt(NamerIn) = {} =>
               NamerOut = NamerIn \o <<" ", "[", "M", "P", "3", " ">> \o nm_bitrate \o <<"]">>
        /\ (nm_path = P_PAREN_LOSSLESS /\ nm_bitrate = S_V0) =>
               NamerOut = <<"A", "r", "t", "i", "s", "t", " ", "-", " ", "A", "l", "b", "u", "m", " ", "(", "V", "0", ")", " ", "[", "M", "P", "3", "]">>
        /\ (nm_path = P_PLAIN /\ nm_bitrate = S_320) =>
               NamerOut = <<"A", "r", "t", "i", "s", "t", " ", "-", " ", "A", "l", "b", "u", "m", " ", "[", "M", "P", "3", " ", "3", "2", "0", "]">>

\* a name with two "Lossless" words, in different cases, and no bracket
C10_Witness ==
    /\ nm_pc = "out"
    /\ nm_path = Flatten(<<S_Lossless, <<" ">>, <<"l", "O", "S", "S", "L", "E", "S", "S">> >>)
    /\ nm_bitrate = S_V0
    /\ nm_out = <<"V", "0", " ", "V", "0", " ", "[", "M", "P", "3", "]">>

(***************************************************************************)
(* The two quality passes of the upload workflow                           *)
(* (for bitrate in ["320", "V0"]: path = transcode_folder(basepath, ...))  *)
(***************************************************************************)
\* C11: invocations with distinct labels return distinct destinations, and
\* an invocation that finds its destination existing has not been given the
\* destination an invocation with another label has returned.
C11_DistinctDestinations ==
    /\ \A r1, r2 \in returned : r1[1] # r2[1] => r1[2] # r2[2]
    /\ (pc = "returned" /\ result = "exists") =>
           \A r \in returned : r[2] = new_path => r[1] = bitrate

(***************************************************************************)
(* Properties of _prepare_tags (specification SpecTags)                    *)
(***************************************************************************)
TotalKeys == TOT_MAP_tracknumber \cup TOT_MAP_discnumber

\* the merge groups, in the order of _TOT_MAP
Groups ==
    <<[tag |-> K_tracknumber, tots |-> TOT_MAP_tracknumber],
      [tag |-> K_discnumber, tots |-> TOT_MAP_discnumber]>>

\* the synonym keys of group g that the input has
Present(g) == g.tots \cap DOMAIN tg_tags

Parses(t) == int(tg_tags[t][1]).ok

\* the integers the present synonyms of g parse to
ParsedTotals(g) == {int(tg_tags[t][1]).val : t \in {u \in Present(g) : Parses(u)}}

\* the group has its primary key and at least one synonym
Merging(g) == g.tag \in DOMAIN tg_tags /\ Present(g) # {}

\* ... and its synonyms do not all give one integer
Failing(g) ==
    Merging(g) /\ ((\E t \in Present(g) : ~Parses(t)) \/ Cardinality(ParsedTotals(g)) > 1)

Returned == tg_pc = "out" /\ tg_out.ok

\* C12 as stated: no total-synonym key in the output, whether the primary
\* key of its group is in the input or not.
C12_NoTotalKeys ==
    Returned => (DOMAIN tg_out.tags) \cap TotalKeys = {}

\* C12, amended: the output has no synonym key of a group whose primary key
\* is in the input; the synonym keys of a group whose primary key is absent
\* are in the output as they are in the input.
C12_NoTotalKeysOfPresentPrimary ==
    Returned =>
        \A n \in DOMAIN Groups :
            IF Groups[n].tag \in DOMAIN tg_tags
            THEN (DOMAIN tg_out.tags) \cap Groups[n].tots = {}
            ELSE \A t \in Present(Groups[n]) :
                     t \in DOMAIN tg_out.tags /\ tg_out.tags[t] = tg_tags[t]

\* the track totals are merged, the disc totals stay for want of discnumber
C12_Witness ==
    /\ Returned
    /\ K_tracknumber \in DOMAIN tg_tags
    /\ Present(Groups[1]) = {K_tracktotal, K_totaltracks}
    /\ K_discnumber \notin DOMAIN tg_tags
    /\ Present(Groups[2]) = {K_disctotal, K_total_discs}
    /\ tg_out.tags[K_tracknumber] = << <<"3", "/", "1", "2">> >>
    /\ (DOMAIN tg_out.tags) \cap TotalKeys = {K_disctotal, K_total_discs}

\* C13: when a group is merged, the primary key has its input values with
\* the first, N, replaced by N/T and the later ones kept; the synonym keys
\* of the group are gone; the keys that are neither dropped nor of a group
\* are as in the input.  {tracknumber: [3], tracktotal: [12]} gives
\* {tracknumber: [3/12]}.
C13_MergeFirstValue ==
    Returned =>
        /\ \A n \in DOMAIN Groups :
               Merging(Groups[n]) =>
                   /\ Cardinality(ParsedTotals(Groups[n])) = 1
                   /\ tg_out.tags[Groups[n].tag] =
                          <<tg_tags[Groups[n].tag][1] \o <<"/">>
                                \o str(CHOOSE T \in ParsedTotals(Groups[n]) : TRUE)>>
                              \o Tail(tg_tags[Groups[n].tag])
                   /\ (DOMAIN tg_out.tags) \cap Groups[n].tots = {}
        /\ \A k \in DOMAIN tg_tags :
               (k \notin TotalKeys \cup {K_tracknumber, K_discnumber}
                /\ ~MatchAt(k, 1, K_replaygain) /\ k # K_encoder) =>
                   k \in DOMAIN tg_out.tags /\ tg_out.tags[k] = tg_tags[k]
        /\ tg_tags = (K_tracknumber :> << <<"3">> >>) @@ (K_tracktotal :> << <<"1", "2">> >>) =>
               tg_out.tags = (K_tracknumber :> << <<"3", "/", "1", "2">> >>)

\* C14 as stated: a group with its primary key and two present synonyms
\* that parse to different integers makes the call fail with the conflict
\* error that names the present synonyms of that group.
C14_ConflictNamesKeys ==
    tg_pc = "out" =>
        \A n \in DOMAIN Groups :
            (Groups[n].tag \in DOMAIN tg_tags /\ Cardinality(ParsedTotals(Groups[n])) > 1) =>
                /\ ~tg_out.ok
                /\ tg_out.err = "conflict"
                /\ tg_out.keys = Present(Groups[n])
                /\ tg_out.tags = << >>

\* C14, amended: the first group of _TOT_MAP that fails, if all its present
\* synonyms parse (and so parse to different integers), makes the call fail
\* with the conflict error that names exactly its present synonyms, and no
\* mapping is returned; {tracknumber: [3], tracktotal: [12], totaltracks:
\* [11]} fails naming tracktotal and totaltracks.  If a present synonym of
\* it does not parse, the call fails with the error of int() instead.
C14_FirstConflictNamesKeys ==
    tg_pc = "out" =>
        /\ \A n \in DOMAIN Groups :
               (Failing(Groups[n]) /\ \A m \in 1..(n - 1) : ~Failing(Groups[m])) =>
                   /\ ~tg_out.ok
                   /\ tg_out.tags = << >>
                   /\ tg_out.keys = Present(Groups[n])
                   /\ tg_out.err = IF \A t \in Present(Groups[n]) : Parses(t)
                                   THEN "conflict" ELSE "int"
        /\ (\A n \in DOMAIN Groups : ~Failing(Groups[n])) => tg_out.ok
        /\ tg_tags = (K_tracknumber :> << <<"3">> >>) @@ (K_tracktotal :> << <<"1", "2">> >>)
                         @@ (K_totaltracks :> << <<"1", "1">> >>) =>
               /\ ~tg_out.ok /\ tg_out.err = "conflict"
               /\ tg_out.keys = {K_tracktotal, K_totaltracks}

\* three present track synonyms, 012 and 12 agreeing and 11 not: the error
\* names the three; the disc group, in conflict too, is not reached
C14_Witness ==
    /\ tg_pc = "out"
    /\ K_tracknumber \in DOMAIN tg_tags
    /\ Present(Groups[1]) = TOT_MAP_tracknumber
    /\ tg_tags[K_tracknumber] = << <<"3">> >>
    /\ tg_tags[K_tracktotal] = << <<"0", "1", "2">> >>
    /\ tg_tags[K_totaltracks] = << <<"1", "1">> >>
    /\ tg_tags[K_total_tracks] = << <<"1", "2">> >>
    /\ Failing(Groups[2])
    /\ tg_out.err = "conflict"
    /\ tg_out.keys = TOT_MAP_tracknumber

\* the keys of the input that line 156 drops
Dropped(k) == MatchAt(k, 1, K_replaygain) \/ k = K_encoder

\* the output has none of the dropped keys and has every other input key
\* that is no total synonym with its values unchanged
C15_State ==
    Returned =>
        /\ \A k \in DOMAIN tg_out.tags : ~Dropped(k)
        /\ \A k \in DOMAIN tg_tags :
               (~Dropped(k) /\ k \notin TotalKeys) =>
                   k \in DOMAIN tg_out.tags /\ tg_out.tags[k] = tg_tags[k]

\* C15 as stated: the output has no replaygain... key and no encoder key,
\* has every other input key that is no total synonym with its values
\* unchanged, and the call does not modify its input.
C15_DropsOnly == []C15_State /\ [][tg_pc = "in" => tg_tags' = tg_tags]_vars

\* the same, but for the primary key of a group that is merged
C15_AmendedState ==
    Returned =>
        /\ \A k \in DOMAIN tg_out.tags : ~Dropped(k)
        /\ \A k \in DOMAIN tg_tags :
               (~Dropped(k) /\ k \notin TotalKeys) =>
                   /\ k \in DOMAIN tg_out.tags
                   /\ (\A n \in DOMAIN Groups : ~(k = Groups[n].tag /\ Merging(Groups[n]))) =>
                          tg_out.tags[k] = tg_tags[k]
        /\ tg_tags = (K_replaygain_track_gain :> << <<"-", "3", " ", "d", "B">> >>)
                         @@ (K_encoder :> << <<"x">> >>) @@ (K_title :> << <<"t">> >>) =>
               tg_out.tags = (K_title :> << <<"t">> >>)

\* C15, amended: the output has no replaygain... key and no encoder key,
\* has every other input key that is no total synonym, with its values
\* unchanged unless it is the primary key of a group that is merged (which
\* has the one value N/T), and the call does not modify its input;
\* {replaygain_track_gain: [-3 dB], encoder: [x], title: [t]} gives
\* {title: [t]}.
C15_DropsOnlyUnlessMerged ==
    []C15_AmendedState /\ [][tg_pc = "in" => tg_tags' = tg_tags]_vars

\* the example of the claim, with a tracknumber that has no total beside it
C15_Witness ==
    /\ Returned
    /\ DOMAIN tg_tags = {K_replaygain_track_gain, K_encoder, K_title, K_tracknumber}
    /\ tg_tags[K_tracknumber] = << <<"3">>, <<"4">> >>
    /\ tg_out.tags = (K_title :> << <<"t">> >>) @@ (K_tracknumber :> << <<"3">>, <<"4">> >>)

(***************************************************************************)
(* Properties of _copy_tags (specification SpecWriter)                     *)
(***************************************************************************)
\* the frames of the container
Frames == {wr_frames[h] : h \in DOMAIN wr_frames}

\* C16: after a tag write that succeeded, the container has for every key
\* of the tags a frame with the values of that key: the frame of the
\* Vorbis-to-ID3 table when the key is in the table, else a TXXX frame with
\* the key as its description; also for two keys that the table maps to one
\* frame identifier.
C16_EveryKeyHasItsFrame ==
    wr_pc = "out" =>
        \A n \in DOMAIN wr_tags :
            \E f \in Frames :
                /\ f.text = wr_tags[n][2]
                /\ IF wr_tags[n][1] \in DOMAIN VORBIS_TO_ID3_MAP
                   THEN f.id = VORBIS_TO_ID3_MAP[wr_tags[n][1]]
                   ELSE f.id = "TXXX" /\ f.desc = wr_tags[n][1]

\* C17: after a tag write that succeeded, every picture of the source is in
\* the container as an APIC frame with its mime type, type code,
\* description and bytes, and the container has as many APIC frames as the
\* source has pictures; also for two pictures with one description.
C17_EveryPictureHasItsFrame ==
    wr_pc = "out" =>
        /\ \A n \in DOMAIN wr_pics :
               \E f \in Frames :
                   /\ f.id = "APIC"
                   /\ f.mime = wr_pics[n].mime /\ f.type = wr_pics[n].type
                   /\ f.desc = wr_pics[n].desc /\ f.data = wr_pics[n].data
        /\ Cardinality({h \in DOMAIN wr_frames : wr_frames[h].id = "APIC"}) = Len(wr_pics)

(***************************************************************************)
(* The destination tree (specification Spec)                               *)
(***************************************************************************)
\* the path o lies under the directory root
IsUnder(o, root) ==
    /\ Len(o) > Len(root) + 1
    /\ \A k \in 1..Len(root) : o[k] = root[k]
    /\ o[Len(root) + 1] = "/"

\* the slots of the source files with one of the sidecar extensions
SidecarSources ==
    {i \in Slots :
        /\ tree[i].present
        /\ Lower(tree[i].ext) \in
               {<<".", "j", "p", "g">>, <<".", "j", "p", "e", "g">>, <<".", "p", "n", "g">>,
                <<".", "p", "d", "f">>, <<".", "t", "x", "t">>}}

\* the slots of the lossless source files
LosslessSources ==
    {i \in Slots : tree[i].present /\ tree[i].ext = <<".", "f", "l", "a", "c">>}

\* where the file of slot i belongs under the destination, with extension e
Mirror(i, e) ==
    new_path \o <<"/">> \o (IF RelDir(i) = << >> THEN << >> ELSE RelDir(i) \o <<"/">>)
        \o Stem(i) \o e

\* after an invocation that has run the engine and returned: the files
\* under the destination are the .mp3 of every lossless source file and the
\* copy of every sidecar source file, at their relative paths, and nothing
\* else; nothing exists under the source but the source files
C18_State ==
    result = "ok" =>
        /\ {o \in DOMAIN files : IsUnder(o, new_path)} =
               {Mirror(i, <<".", "m", "p", "3">>) : i \in LosslessSources}
                   \cup {Mirror(i, tree[i].ext) : i \in SidecarSources}
        /\ \A i \in LosslessSources :
               LET f == files[Mirror(i, <<".", "m", "p", "3">>)]
               IN  f.kind = "mp3" /\ f.of = i /\ f.q = bitrate
        /\ \A i \in SidecarSources :
               LET f == files[Mirror(i, tree[i].ext)]
               IN  f.kind = "copy" /\ f.of = i
        /\ \A o \in (DOMAIN files) \cup dirs : o # src /\ ~IsUnder(o, src)

C19_ProcessErrorCarriesStderr ==
    \A i \in DOMAIN task :
        (task[i].dec = "fail" \/ task[i].enc = "fail") =>
            /\ task[i].st = "failed"
            /\ task[i].err \in {"decode", "encode"}
            /\ task[i].stderr # "" => task[i].msg = task[i].stderr

\* the position of the word w in the command line c (0 if it is not there)
WordAt(c, w) ==
    IF \E n \in 1..Len(c) : c[n] = w THEN CHOOSE n \in 1..Len(c) : c[n] = w ELSE 0

\* an option as a set of options: a bundle of one-letter options is its
\* letters, -S is the short form of --quiet
Canonical(opt) ==
    IF opt = "-Vdsc" THEN {"-V", "-d", "-s", "-c"}
    ELSE IF opt = "-dcs" THEN {"-d", "-c", "-s"}
    ELSE IF opt = "-S" THEN {"--quiet"}
    ELSE {opt}

OptionSet(c, from, to) == UNION {Canonical(c[n]) : n \in from..to}

\* the options of the two commands of the description:
\* flac <options> -- input.flac | lame <options> - output.mp3
DescribedDecoderOptions(c) == OptionSet(c, 2, WordAt(c, "--") - 1)
DescribedEncoderOptions(c) == OptionSet(c, WordAt(c, "lame") + 1, WordAt(c, "-") - 1)

\* the options of the commands spawned:
\* flac <options> -o tmp_path flac_path and lame <options> tmp_path mp3_path
SpawnedDecoderOptions(c) == OptionSet(c, 2, WordAt(c, "-o") - 1)
SpawnedEncoderOptions(c) == OptionSet(c, 2, Len(c) - 2)

\* C20: the command line of the description given for a label has the
\* decoder options and the encoder options of the commands that
\* _flac_to_mp3 has spawned for that label (compared as sets of options,
\* whatever their order and their spelling, the input and output
\* arguments left aside).
C20_DescriptionIsCommandUsed ==
    pc = "described" =>
        /\ description.ok
        /\ \A i \in DOMAIN task :
               /\ task[i].flac_cmd # << >> =>
                      DescribedDecoderOptions(description.process) =
                          SpawnedDecoderOptions(task[i].flac_cmd)
               /\ task[i].lame_cmd # << >> =>
                      DescribedEncoderOptions(description.process) =
                          SpawnedEncoderOptions(task[i].lame_cmd)

(***************************************************************************)
(* The tag write that fails, the order of the steps and of the phases      *)
(***************************************************************************)
\* C21: a task whose tag write has failed has failed after its decoder and
\* its encoder succeeded; its encoded file is at its destination, without
\* tags; its temporary file does not exist; and the other tasks that have
\* ended, unless cancelled from outside, have ended as they would have
\* alone.
C21_TagFailureIsolated ==
    \A i \in DOMAIN task :
        task[i].tag = "fail" =>
            /\ task[i].st = "failed" /\ task[i].err = "tags"
            /\ task[i].dec = "ok" /\ task[i].enc = "ok"
            /\ items[i].dst \in DOMAIN files
            /\ files[items[i].dst].kind = "mp3"
            /\ files[items[i].dst].of = items[i].src
            /\ ~files[items[i].dst].tagged
            /\ task[i].tmp \notin tmpfiles
            /\ \A j \in (DOMAIN task) \ {i} :
                   /\ task[j].st \in {"done", "failed"} =>
                          task[j].err =
                              AloneOutcome(items[j], bitrate, task[j].dec, task[j].enc,
                                           task[j].tag)
                   /\ task[j].st = "cancelled" => result = "cancelled"

\* the tag write of the first item fails while the second is being
\* encoded; the second is then encoded and tagged, and the run fails
C21_Witness ==
    /\ result = "failed"
    /\ Len(task) = 2
    /\ task[1].tag = "fail"
    /\ task[2].st = "done"
    /\ files[items[2].dst].tagged
    /\ ~files[items[1].dst].tagged

\* the path without its trailing separators: the directory it names
Folder(p) == IF \A k \in 1..Len(p) : p[k] = "/" THEN p ELSE RStripSlash(p)

\* C22: for a source path that names a folder, with or without a trailing
\* separator, the destination has the parent directory of the source folder,
\* is not the source folder and does not lie inside it.
C22_SiblingOfSource ==
    (nm_pc = "out" /\ os_path_basename(Folder(nm_path)) # << >>) =>
        /\ os_path_dirname(Folder(nm_out)) = os_path_dirname(Folder(nm_path))
        /\ Folder(nm_out) # Folder(nm_path)
        /\ ~IsUnder(nm_out, Folder(nm_path))

\* where the task of an item stands in the order of its steps
StepsOrdered(i) ==
    /\ task[i].flac_cmd # << >> => items[i].channels <= 2
    /\ (task[i].dec # "-" \/ task[i].st = "decoding") => task[i].flac_cmd # << >>
    /\ (task[i].lame_cmd # << >> \/ task[i].st = "encoding" \/ task[i].enc # "-") =>
           task[i].dec = "ok"
    /\ task[i].enc # "-" => task[i].lame_cmd # << >>
    /\ task[i].tag # "-" => (task[i].dec = "ok" /\ task[i].enc = "ok")
    /\ task[i].st = "done" => task[i].tag = "ok"
    /\ task[i].dec = "fail" => (task[i].enc = "-" /\ task[i].tag = "-")
    /\ task[i].enc = "fail" => task[i].tag = "-"

\* the steps a task takes: from pending to decoding or to failed, from
\* decoding to encoding or to failed, from encoding to done or to failed,
\* or from any of the three to cancelled
StepTaken(i) ==
    (i \in DOMAIN task /\ i \in DOMAIN task' /\ task'[i].st # task[i].st) =>
        <<task[i].st, task'[i].st>> \in
            {<<"pending", "decoding">>, <<"pending", "failed">>,
             <<"decoding", "encoding">>, <<"decoding", "failed">>,
             <<"encoding", "done">>, <<"encoding", "failed">>,
             <<"pending", "cancelled">>, <<"decoding", "cancelled">>,
             <<"encoding", "cancelled">>}

\* C23: in the task of an item the channel check comes first, the decoder
\* is spawned after it, the encoder only after the decoder has exited with
\* 0, the tag write only after the encoder has exited with 0, and the item
\* is complete only when the tag write has returned; no encoder after a
\* failed decoding, no tag write after a failed decoding or encoding.
C23_StepsInOrder ==
    [](\A i \in DOMAIN task : StepsOrdered(i))
        /\ [][\A i \in Slots : StepTaken(i)]_vars

\* one item has gone through the three steps, the other has stopped at
\* its decoder
C23_Witness ==
    /\ Len(task) = 2
    /\ task[1].st = "done" /\ task[1].dec = "ok" /\ task[1].enc = "ok" /\ task[1].tag = "ok"
    /\ task[2].st = "failed" /\ task[2].dec = "fail" /\ task[2].lame_cmd = << >>

\* every sidecar file of the source has its copy in the destination
SidecarsCopied ==
    \A i \in SidecarSlots(tree) :
        LET out == os_path_join(new_path, RelPath(i, tree[i].ext))
        IN  out \in DOMAIN files /\ files[out] = CopyOf(i)

\* a process has been spawned by this invocation
Spawned == done.spawns > 0 \/ \E i \in DOMAIN task : task[i].flac_cmd # << >>

\* where the invocation stands in the order of its phases
PhasesOrdered ==
    /\ pc \in {"validate", "name", "isdir", "collect", "copy"} =>
           /\ files = done.files0 /\ dirs = done.dirs0
           /\ task = << >> /\ ~Spawned
    /\ pc \in {"validate", "name"} => new_path = << >>
    /\ pc \in {"isdir", "collect", "copy"} =>
           new_path = _build_output_path(src, bitrate)
    /\ pc \in {"validate", "name", "isdir", "collect"} =>
           (items = << >> /\ ~done.collected)
    /\ pc \in {"copy", "engine"} =>
           /\ _validate_lossless(tree) /\ new_path \notin done.dirs0
           /\ done.collected /\ Len(items) = Cardinality(FlacSlots(tree))
    /\ pc = "copy" => items = _collect_transcode_items(tree, new_path).items
    /\ pc = "engine" => (SidecarsCopied /\ Len(task) = Len(items))
    /\ Spawned => (done.collected /\ SidecarsCopied)
    /\ (pc \in {"returned", "described"} /\ result = "ok") =>
           /\ done.collected /\ SidecarsCopied
           /\ Len(task) = Len(items) /\ RunnerEnded(task)

\* the steps an invocation takes from phase to phase
PhaseTaken ==
    pc' # pc =>
        <<pc, pc'>> \in
            {<<"idle", "validate">>, <<"returned", "validate">>,
             <<"raised", "validate">>, <<"described", "validate">>,
             <<"validate", "name">>, <<"validate", "raised">>,
             <<"name", "isdir">>,
             <<"isdir", "collect">>, <<"isdir", "returned">>,
             <<"collect", "copy">>, <<"collect", "raised">>,
             <<"copy", "engine">>,
             <<"engine", "returned">>, <<"engine", "raised">>,
             <<"returned", "described">>}

\* C24: an invocation of transcode_folder that does not return at the
\* destination-exists check runs the Validator, the Namer, the check, the
\* Collector, the Auxiliary Copier and the Transcode Engine in this order:
\* nothing is copied before the items are collected, no process is spawned
\* before every sidecar file is copied, and the path is returned only when
\* every task of the engine has ended.
C24_PhasesInOrder == []PhasesOrdered /\ [][PhaseTaken]_vars

\* an invocation has copied a sidecar file, transcoded an item and returned
C24_Witness ==
    /\ pc = "returned" /\ result = "ok"
    /\ done.copies > 0 /\ done.spawns >= 2
    /\ Len(items) > 0 /\ items[1].dst \in DOMAIN files

(***************************************************************************)
(* The files the tasks write                                               *)
(***************************************************************************)
\* the destination of item i holds what the task of item i has made of it,
\* and nothing before the encoder of item i has run
OwnOutput(i) ==
    LET o == items[i].dst
        t == task[i]
    IN  IF t.st = "done"
        THEN o \in DOMAIN files /\ files[o] = Mp3Of(items[i].src, bitrate, TRUE)
        ELSE IF t.err = "tags"
        THEN o \in DOMAIN files /\ files[o] = Mp3Of(items[i].src, bitrate, FALSE)
        ELSE IF t.err \in {"encode", "cancelled"}
        THEN o \in DOMAIN files => files[o] = PartialOf(items[i].src, bitrate)
        ELSE o \notin DOMAIN files

\* the tasks that have passed line 294
PastMkdir == {i \in DOMAIN task : task[i].flac_cmd # << >>}

\* the file system of the destination as a function of what each task has
\* done by itself, whatever the order of their steps
TreeOfTasks ==
    /\ \A i \in DOMAIN task : OwnOutput(i)
    /\ \A o \in DOMAIN files :
           \/ o \in DOMAIN done.files0 /\ files[o] = done.files0[o]
           \/ \E i \in DOMAIN items : o = items[i].dst
           \/ \E i \in SidecarSlots(tree) :
                  o = os_path_join(new_path, RelPath(i, tree[i].ext)) /\ files[o] = CopyOf(i)
    /\ dirs = copy_extra_dirs(tree, new_path, done.dirs0)
                  \cup UNION {MkdirParents(new_path, items[i].src) : i \in PastMkdir}
    /\ tmpfiles \subseteq {task[i].tmp : i \in {j \in DOMAIN task : InFlight(task[j])}}

\* C25: the items of a work list have distinct destinations and distinct
\* temporary files, and no destination is the copy of a sidecar file; so,
\* in whatever order the steps of the tasks interleave, each task ends as
\* it would alone and the destination holds for each item what its own
\* task has written; the mkdir of a parent that exists already fails no
\* task.
C25_NoSharedFile ==
    (pc = "engine" \/ (pc \in {"returned", "raised"} /\ task # << >>)) =>
        /\ \A i, j \in DOMAIN items : i # j => items[i].dst # items[j].dst
        /\ \A i, j \in DOMAIN task :
               (i # j /\ task[i].tmp # << >>) => task[i].tmp # task[j].tmp
        /\ \A i \in DOMAIN items, j \in Slots, e \in COPY_EXTENSIONS :
               items[i].dst # os_path_join(new_path, RelPath(j, e))
        /\ \A i \in DOMAIN task :
               (Terminal(task[i]) /\ task[i].st # "cancelled") =>
                   task[i].err = AloneOutcome(items[i], bitrate, task[i].dec,
                                              task[i].enc, task[i].tag)
        /\ TreeOfTasks

\* two tasks have been in flight together, each with its temporary file,
\* and both have ended with their output in the destination next to the
\* copy of nothing else; the second has made its directory after the first
\* had made the root
C25_Witness ==
    /\ pc = "returned" /\ result = "ok" /\ Len(task) = 2
    /\ task[1].tmp # << >> /\ task[2].tmp # << >>
    /\ files[items[1].dst] = Mp3Of(items[1].src, bitrate, TRUE)
    /\ files[items[2].dst] = Mp3Of(items[2].src, bitrate, TRUE)
    /\ os_path_dirname(items[1].dst) = new_path
    /\ os_path_dirname(items[2].dst) \in dirs \ {new_path}

\* C26: a path transcode_folder has returned is an existing directory,
\* for every source tree that passes validation, the tree with no lossless
\* file and no sidecar file included.
C26_ReturnedPathIsDirectory ==
    pc \in {"returned", "described"} => new_path \in dirs

=============================================================================
